---- MODULE Spec2Model ----
(***************************************************************************)
(* A model of xtts_api_server/tts_funcs.py: the TTSWrapper object, its     *)
(* speaker directory, its latent cache, the placement of its one model and *)
(* the callers of process_tts_to_file / get_or_create_latents.             *)
(*                                                                         *)
(* Strings (file names, paths, speaker identifiers) are sequences of       *)
(* tokens: a token is a run of characters that the code never looks        *)
(* inside ("alice", "speakers"), the path separator "/", or an extension   *)
(* with its dot (".wav", ".txt").                                          *)
(***************************************************************************)
EXTENDS Naturals, Sequences, FiniteSets, TLC

-----------------------------------------------------------------------------
(* Bounds of the model *)

\* threads that call into the one TTSWrapper object
NumCallers == 2

\* invocations of model.get_conditioning_latents explored per speaker name
MaxExtract == 2

\* entries of the speaker directory in the layouts of SpecRegistry
MaxEntries == 2

-----------------------------------------------------------------------------
(* Strings and posixpath *)

SEP == "/"

WAV == <<".wav">>

ExtTokens == {".wav", ".txt"}

\* str.endswith
EndsWith(s, suffix) ==
    /\ Len(s) >= Len(suffix)
    /\ SubSeq(s, Len(s) - Len(suffix) + 1, Len(s)) = suffix

\* os.path.isabs
IsAbs(p) == Len(p) > 0 /\ p[1] = SEP

\* os.path.join of two components
Join(a, b) ==
    IF IsAbs(b) THEN b
    ELSE IF a = <<>> \/ a[Len(a)] = SEP THEN a \o b
    ELSE a \o <<SEP>> \o b

\* os.path.splitext(f)[0]: the last extension is dropped unless the dot
\* leads the base name
SplitExtRoot(f) ==
    IF Len(f) >= 2 /\ f[Len(f)] \in ExtTokens /\ f[Len(f) - 1] # SEP
    THEN SubSeq(f, 1, Len(f) - 1)
    ELSE f

-----------------------------------------------------------------------------
(* State *)

VARIABLES
    lowvram,          \* self.lowvram
    cuda_available,   \* torch.cuda.is_available()
    cuda,             \* self.cuda: the configured target device
    model_source,     \* self.model_source
    device,           \* self.device: the recorded placement
    model_device,     \* where self.model resides ("none": no model yet)
    phase,            \* "constructed", "loaded" or "load_failed"
    latents_cache,    \* self.latents_cache: speaker_name -> pair
    speaker_folder,   \* self.speaker_folder
    speaker_dir,      \* the listing of the speaker folder on disk
    pc,               \* each caller's position
    op,               \* each caller's operation: "tts" or "latents"
    ident,            \* each caller's speaker_name_or_path / speaker_name
    speaker_wav,      \* each caller's resolved reference(s)
    fresh,            \* each caller's pair returned by the extraction
    result,           \* each caller's pair returned by get_or_create_latents
    err,              \* the exception that reached each caller
    sent_wav,         \* speaker_wav each caller handed to model.tts_to_file
    extract_calls,    \* invocations of get_conditioning_latents per name
    extract_ok,       \* ... of which returned normally
    scan,             \* the last return value of _get_speakers
    lookup,           \* the last call of get_speaker_wav and its outcome
    output_folder,    \* self.output_folder
    disk,             \* the directories and files the folder setters see
    setcall,          \* the last call of a folder setter and its outcome
    text,             \* the argument of the last call of clean_text
    cleaned           \* the return value of the last call of clean_text

cfgvars == <<lowvram, cuda_available, cuda, model_source>>

fsvars == <<speaker_folder, speaker_dir, output_folder, disk>>

callervars == <<pc, op, ident, speaker_wav, fresh, result, err, sent_wav>>

ghostvars == <<extract_calls, extract_ok>>

regvars == <<scan, lookup>>

auxvars == <<setcall, text, cleaned>>

vars == <<cfgvars, device, model_device, phase, latents_cache, fsvars,
          callervars, ghostvars, regvars, auxvars>>

Callers == 1 .. NumCallers

-----------------------------------------------------------------------------
(* The speaker directory on disk *)

\* the full path of a top-level entry
EntryPath(e) == Join(speaker_folder, e.name)

\* os.path.isdir
IsDir(p) ==
    \E i \in DOMAIN speaker_dir :
        speaker_dir[i].isdir /\ EntryPath(speaker_dir[i]) = p

\* os.path.isfile
IsFile(p) ==
    \E i \in DOMAIN speaker_dir :
        LET e == speaker_dir[i] IN
        IF e.isdir
        THEN \E j \in DOMAIN e.files : Join(EntryPath(e), e.files[j]) = p
        ELSE EntryPath(e) = p

\* os.listdir, in the order the operating system lists the entries
ListDir(p) ==
    IF p = speaker_folder
    THEN [i \in DOMAIN speaker_dir |-> speaker_dir[i].name]
    ELSE LET i == CHOOSE i \in DOMAIN speaker_dir :
                      speaker_dir[i].isdir /\ EntryPath(speaker_dir[i]) = p
         IN  speaker_dir[i].files

-----------------------------------------------------------------------------
(* SpeakerRegistry: get_wav_files, _get_speakers, get_speaker_wav *)

IsWavName(f) == EndsWith(f, WAV)

get_wav_files(directory) == SelectSeq(ListDir(directory), IsWavName)

\* a str speaker_wav
OnePath(p) == [islist |-> FALSE, paths |-> <<p>>]

\* a list speaker_wav
PathList(ps) == [islist |-> TRUE, paths |-> ps]

NoWav == [islist |-> FALSE, paths |-> <<>>]

\* the dict appended for a directory entry f (lines 178-186)
DirSpeaker(f, subdir_files) ==
    [speaker_name |-> f,
     speaker_wav  |-> PathList([k \in DOMAIN subdir_files |->
                         Join(Join(speaker_folder, f), subdir_files[k])]),
     preview      |-> Join(f, subdir_files[1])]

\* the dict appended for a file entry f (lines 189-196)
FileSpeaker(f) ==
    [speaker_name |-> SplitExtRoot(f),
     speaker_wav  |-> OnePath(Join(speaker_folder, f)),
     preview      |-> f]

\* SpeakersOfEntry with the test of line 188 left out: every entry that is
\* no directory is listed
SpeakersOfEntryAnyFile(f) ==
    LET full_path == Join(speaker_folder, f) IN
    IF IsDir(full_path)
    THEN LET subdir_files == get_wav_files(full_path) IN
         IF Len(subdir_files) = 0 THEN <<>>
         ELSE <<DirSpeaker(f, subdir_files)>>
    ELSE <<FileSpeaker(f)>>

\* what one iteration of the loop of _get_speakers appends for entry f
SpeakersOfEntry(f) ==
    LET full_path == Join(speaker_folder, f) IN
    IF IsDir(full_path)
    THEN LET subdir_files == get_wav_files(full_path) IN
         IF Len(subdir_files) = 0 THEN <<>>
         ELSE <<DirSpeaker(f, subdir_files)>>
    ELSE IF EndsWith(f, WAV) THEN <<FileSpeaker(f)>>
    ELSE <<>>

RECURSIVE SpeakersFrom(_, _)
SpeakersFrom(listing, i) ==
    IF i > Len(listing) THEN <<>>
    ELSE SpeakersOfEntry(listing[i]) \o SpeakersFrom(listing, i + 1)

_get_speakers == SpeakersFrom(ListDir(speaker_folder), 1)

get_speakers == [j \in DOMAIN _get_speakers |-> _get_speakers[j].speaker_name]

Returned(v) == [raised |-> "none", value |-> v]

Raised(e) == [raised |-> e, value |-> NoWav]

\* the branch for an identifier that ends with '.wav' (lines 276-282):
\* line 277 reads the name spekaer_name_or_path, which is bound nowhere,
\* so evaluating the condition raises NameError
LiteralReference(speaker_name_or_path) == Raised("NameError")

\* NamedSpeaker with the test of lines 290-291 left out: a directory with
\* no audio yields an empty list
NamedSpeakerNoEmptyCheck(speaker_name_or_path) ==
    LET full_path == Join(speaker_folder, speaker_name_or_path)
        wav_file  == full_path \o WAV
    IN  IF IsDir(full_path)
        THEN LET wavs == get_wav_files(full_path) IN
             Returned(PathList([k \in DOMAIN wavs |->
                                   Join(full_path, wavs[k])]))
        ELSE IF IsFile(wav_file) THEN Returned(OnePath(wav_file))
        ELSE Raised("ValueError")

\* the branch for a speaker name (lines 284-295)
NamedSpeaker(speaker_name_or_path) ==
    LET full_path == Join(speaker_folder, speaker_name_or_path)
        wav_file  == full_path \o WAV
    IN  IF IsDir(full_path)
        THEN LET wavs == get_wav_files(full_path) IN
             IF Len(wavs) = 0 THEN Raised("ValueError")
             ELSE Returned(PathList([k \in DOMAIN wavs |->
                                        Join(full_path, wavs[k])]))
        ELSE IF IsFile(wav_file) THEN Returned(OnePath(wav_file))
        ELSE Raised("ValueError")

get_speaker_wav(speaker_name_or_path) ==
    IF EndsWith(speaker_name_or_path, WAV)
    THEN LiteralReference(speaker_name_or_path)
    ELSE NamedSpeaker(speaker_name_or_path)

-----------------------------------------------------------------------------
(* DevicePlacementScheduler: __init__ and switch_model_device *)

Devices == {"cpu", "cuda"}

\* line 46
InitialDevice(lv, avail, target) ==
    IF lv THEN "cpu" ELSE IF avail THEN target ELSE "cpu"

\* SwitchEnabled with the test of torch.cuda.is_available() left out
SwitchEnabledNoCuda == lowvram /\ cuda # "cpu"

\* the condition of line 101
SwitchEnabled == lowvram /\ cuda_available /\ cuda # "cpu"

\* lines 103-106
Toggled(d) == IF d = cuda THEN "cpu" ELSE cuda

-----------------------------------------------------------------------------
(* LatentCache: get_or_create_latents *)

\* the pair of tensors returned by the k-th invocation of
\* get_conditioning_latents on behalf of speaker_name
Pair(speaker_name, k) ==
    [gpt_cond_latent   |-> <<speaker_name, k>>,
     speaker_embedding |-> <<speaker_name, k>>]

NoPair == [gpt_cond_latent |-> <<>>, speaker_embedding |-> <<>>]

EmptyCache == [n \in {} |-> NoPair]

NoCount == [n \in {} |-> 0]

Count(f, n) == IF n \in DOMAIN f THEN f[n] ELSE 0

Incr(f, n) == (n :> (Count(f, n) + 1)) @@ f

\* CacheMiss with the test of line 115 left out: every call extracts
CacheMissAlways(cache, speaker_name) == TRUE

\* line 115
CacheMiss(cache, speaker_name) == speaker_name \notin DOMAIN cache

\* get_or_create_latents run to its end with an extraction that succeeds,
\* on st = [cache, calls, ok]
LatentsStep(st, speaker_name) ==
    IF CacheMiss(st.cache, speaker_name)
    THEN [cache |-> (speaker_name :>
                        Pair(speaker_name, Count(st.calls, speaker_name) + 1))
                    @@ st.cache,
          calls |-> Incr(st.calls, speaker_name),
          ok    |-> Incr(st.ok, speaker_name)]
    ELSE st

\* the loop of create_latents_for_all over the first n speakers
RECURSIVE LatentsForAll(_, _, _)
LatentsForAll(speakers_list, n, st) ==
    IF n = 0 THEN st
    ELSE LatentsStep(LatentsForAll(speakers_list, n - 1, st),
                     speakers_list[n].speaker_name)

-----------------------------------------------------------------------------
(* Initial states: a TTSWrapper as __init__ leaves it *)

Stems == {"alice", "bob"}

File(name) == [name |-> name, isdir |-> FALSE, files |-> <<>>]

Dir(name, files) == [name |-> name, isdir |-> TRUE, files |-> files]

\* the speaker directories of the served configurations: the layout of the
\* end-to-end example (alice.wav, bob/{b1.wav, b2.wav}) and one whose bob/
\* holds no audio
ServedDirs ==
    { << File(<<"alice", ".wav">>),
         Dir(<<"bob">>, << <<"b1", ".wav">>, <<"b2", ".wav">> >>) >>,
      << Dir(<<"bob">>, << <<"notes", ".txt">> >>),
         File(<<"alice", ".wav">>) >> }

\* the identifiers callers pass to process_tts_to_file
TtsIdents ==
    { <<"alice">>, <<"bob">>, <<"carol">>, <<"alice", ".wav">> }

NoLookup == [ident |-> <<>>, called |-> FALSE, out |-> Raised("none")]

NoScan == [called |-> FALSE, value |-> <<>>]

NoSetCall == [method |-> "none", folder |-> <<>>, raised |-> FALSE, seq |-> 0]

\* what is on disk beside the speaker folder: the output folder, a second
\* folder of speakers and a plain file
DiskAround(listing) ==
    (<<"speakers">> :> [isdir |-> TRUE, listing |-> listing])
    @@ (<<"output">> :> [isdir |-> TRUE, listing |-> <<>>])
    @@ (<<"voices">> :>
           [isdir |-> TRUE, listing |-> << File(<<"carol", ".wav">>) >>])
    @@ (<<"readme", ".txt">> :> [isdir |-> FALSE, listing |-> <<>>])

InitObject ==
    /\ latents_cache = EmptyCache
    /\ model_device = "none"
    /\ phase = "constructed"
    /\ speaker_folder = <<"speakers">>
    /\ pc = [c \in Callers |-> "idle"]
    /\ op = [c \in Callers |-> "none"]
    /\ ident = [c \in Callers |-> <<>>]
    /\ speaker_wav = [c \in Callers |-> NoWav]
    /\ fresh = [c \in Callers |-> NoPair]
    /\ result = [c \in Callers |-> NoPair]
    /\ err = [c \in Callers |-> "none"]
    /\ sent_wav = [c \in Callers |-> NoWav]
    /\ extract_calls = NoCount
    /\ extract_ok = NoCount
    /\ scan = NoScan
    /\ lookup = NoLookup
    /\ output_folder = <<"output">>
    /\ disk = DiskAround(speaker_dir)
    /\ setcall = NoSetCall
    /\ text = <<>>
    /\ cleaned = <<>>

Init ==
    /\ lowvram \in BOOLEAN
    /\ cuda_available \in BOOLEAN
    /\ cuda \in Devices
    /\ model_source \in {"local", "api", "apiManual"}
    /\ device = InitialDevice(lowvram, cuda_available, cuda)
    /\ speaker_dir \in ServedDirs
    /\ InitObject

-----------------------------------------------------------------------------
(* load_model *)

\* line 76: the local backend
LocalBackend == model_source = "local"

\* where the model object resides once built: TTS(...) of line 64 is not
\* moved, lines 74 and 97 move the model to self.device
LoadedOn == IF model_source = "api" THEN "cpu" ELSE device

\* WarmsUp with the test of line 78 left out: the warm-up also runs in
\* low-memory mode
WarmsUpAlways == LocalBackend

\* line 78
WarmsUp == LocalBackend /\ lowvram = FALSE

LoadModel ==
    /\ phase = "constructed"
    /\ model_device' = LoadedOn
    /\ LET st == IF WarmsUp
                 THEN LatentsForAll(_get_speakers, Len(_get_speakers),
                          [cache |-> latents_cache, calls |-> extract_calls,
                           ok |-> extract_ok])
                 ELSE [cache |-> latents_cache, calls |-> extract_calls,
                       ok |-> extract_ok]
       IN  /\ latents_cache' = st.cache
           /\ extract_calls' = st.calls
           /\ extract_ok' = st.ok
    /\ phase' = "loaded"
    /\ UNCHANGED <<cfgvars, auxvars, device, fsvars, callervars, regvars>>

\* load_model when the extraction for speaker number k raises: the
\* exception leaves load_model and the server does not start
LoadModelFails ==
    /\ phase = "constructed"
    /\ WarmsUp
    /\ \E k \in DOMAIN _get_speakers :
          LET st == LatentsForAll(_get_speakers, k - 1,
                        [cache |-> latents_cache, calls |-> extract_calls,
                         ok |-> extract_ok])
              name == _get_speakers[k].speaker_name
          IN  /\ CacheMiss(st.cache, name)
              /\ latents_cache' = st.cache
              /\ extract_calls' = Incr(st.calls, name)
              /\ extract_ok' = st.ok
    /\ model_device' = LoadedOn
    /\ phase' = "load_failed"
    /\ UNCHANGED <<cfgvars, auxvars, device, fsvars, callervars, regvars>>

-----------------------------------------------------------------------------
(* process_tts_to_file and get_or_create_latents, one step per statement   *)
(* that reads or writes the shared object                                  *)

\* Backend with the test of line 317 left out: every call goes to
\* local_generation
BackendLocalOnly == "goc_check"

\* the branch taken at line 317 once the pre-call switch is over
Backend == IF LocalBackend THEN "goc_check" ELSE "api_call"

\* AfterResolve with the exception of get_speaker_wav swallowed: the call
\* goes on to the pre-call switch
AfterResolveGoesOn(r) == "pre"

\* where a call stands after line 302: an exception of get_speaker_wav
\* leaves process_tts_to_file through lines 325-326
AfterResolve(r) == IF r.raised = "none" THEN "pre" ELSE "raised"

\* lines 302-312: resolve the speaker; the output path and the cleaned text
\* are computed from the arguments alone.  Calls are served once load_model
\* has returned: before it self.model does not exist.
ProcessTtsToFileWith(c, ids) ==
    /\ phase = "loaded"
    /\ pc[c] = "idle"
    /\ \E id \in ids :
          LET r == get_speaker_wav(id) IN
          /\ op' = [op EXCEPT ![c] = "tts"]
          /\ ident' = [ident EXCEPT ![c] = id]
          /\ speaker_wav' = [speaker_wav EXCEPT ![c] = r.value]
          /\ err' = [err EXCEPT ![c] = r.raised]
          /\ pc' = [pc EXCEPT ![c] = AfterResolve(r)]
    /\ UNCHANGED <<cfgvars, auxvars, device, model_device, phase, latents_cache,
                   fsvars, fresh, result, sent_wav, ghostvars, regvars>>

ProcessTtsToFile(c) == ProcessTtsToFileWith(c, TtsIdents)

\* a call of get_or_create_latents with a registry entry's name and
\* references, as create_latents_for_all makes it (line 125)
GetOrCreateLatents(c) ==
    /\ phase = "loaded"
    /\ pc[c] = "idle"
    /\ LocalBackend
    /\ \E j \in DOMAIN _get_speakers :
          /\ ident' = [ident EXCEPT ![c] = _get_speakers[j].speaker_name]
          /\ speaker_wav' =
                 [speaker_wav EXCEPT ![c] = _get_speakers[j].speaker_wav]
    /\ op' = [op EXCEPT ![c] = "latents"]
    /\ pc' = [pc EXCEPT ![c] = "goc_check"]
    /\ UNCHANGED <<cfgvars, auxvars, device, model_device, phase, latents_cache,
                   fsvars, fresh, result, err, sent_wav, ghostvars, regvars>>

\* switch_model_device, lines 101-106: the recorded device is toggled
SwitchRecord(c) ==
    /\ pc[c] \in {"pre", "post"}
    /\ IF SwitchEnabled
       THEN /\ device' = Toggled(device)
            /\ pc' = [pc EXCEPT ![c] =
                         IF pc[c] = "pre" THEN "pre_to" ELSE "post_to"]
       ELSE /\ device' = device
            /\ pc' = [pc EXCEPT ![c] =
                         IF pc[c] = "pre" THEN Backend ELSE "returned"]
    /\ UNCHANGED <<cfgvars, auxvars, model_device, phase, latents_cache, fsvars, op,
                   ident, speaker_wav, fresh, result, err, sent_wav,
                   ghostvars, regvars>>

\* switch_model_device, line 108: the model is moved to the recorded device
SwitchMove(c) ==
    /\ pc[c] \in {"pre_to", "post_to"}
    /\ model_device' = device
    /\ pc' = [pc EXCEPT ![c] =
                 IF pc[c] = "pre_to" THEN Backend ELSE "returned"]
    /\ UNCHANGED <<cfgvars, auxvars, device, phase, latents_cache, fsvars, op, ident,
                   speaker_wav, fresh, result, err, sent_wav, ghostvars,
                   regvars>>

\* line 108 raises (out of memory on the target): the model is where it was
SwitchMoveFails(c) ==
    /\ pc[c] \in {"pre_to", "post_to"}
    /\ pc' = [pc EXCEPT ![c] = "raised"]
    /\ err' = [err EXCEPT ![c] = "RelocationFailure"]
    /\ UNCHANGED <<cfgvars, auxvars, device, model_device, phase, latents_cache,
                   fsvars, op, ident, speaker_wav, fresh, result, sent_wav,
                   ghostvars, regvars>>

\* get_or_create_latents, line 115
LatentsCheck(c) ==
    /\ pc[c] = "goc_check"
    /\ pc' = [pc EXCEPT ![c] =
                 IF CacheMiss(latents_cache, ident[c])
                 THEN "goc_extract" ELSE "goc_return"]
    /\ UNCHANGED <<cfgvars, auxvars, device, model_device, phase, latents_cache,
                   fsvars, op, ident, speaker_wav, fresh, result, err,
                   sent_wav, ghostvars, regvars>>

\* get_or_create_latents, line 117: the extraction returns a new pair
LatentsExtract(c) ==
    /\ pc[c] = "goc_extract"
    /\ Count(extract_calls, ident[c]) < MaxExtract
    /\ fresh' = [fresh EXCEPT ![c] =
                    Pair(ident[c], Count(extract_calls, ident[c]) + 1)]
    /\ extract_calls' = Incr(extract_calls, ident[c])
    /\ extract_ok' = Incr(extract_ok, ident[c])
    /\ pc' = [pc EXCEPT ![c] = "goc_store"]
    /\ UNCHANGED <<cfgvars, auxvars, device, model_device, phase, latents_cache,
                   fsvars, op, ident, speaker_wav, result, err, sent_wav,
                   regvars>>

\* get_or_create_latents, line 117: the extraction raises
LatentsExtractFails(c) ==
    /\ pc[c] = "goc_extract"
    /\ Count(extract_calls, ident[c]) < MaxExtract
    /\ extract_calls' = Incr(extract_calls, ident[c])
    /\ pc' = [pc EXCEPT ![c] = "raised"]
    /\ err' = [err EXCEPT ![c] = "BackendFailure"]
    /\ UNCHANGED <<cfgvars, auxvars, device, model_device, phase, latents_cache,
                   fsvars, op, ident, speaker_wav, fresh, result, sent_wav,
                   extract_ok, regvars>>

\* get_or_create_latents, line 118
LatentsStore(c) ==
    /\ pc[c] = "goc_store"
    /\ latents_cache' = (ident[c] :> fresh[c]) @@ latents_cache
    /\ pc' = [pc EXCEPT ![c] = "goc_return"]
    /\ UNCHANGED <<cfgvars, auxvars, device, model_device, phase, fsvars, op, ident,
                   speaker_wav, fresh, result, err, sent_wav, ghostvars,
                   regvars>>

\* get_or_create_latents, line 119
LatentsReturn(c) ==
    /\ pc[c] = "goc_return"
    /\ result' = [result EXCEPT ![c] = latents_cache[ident[c]]]
    /\ pc' = [pc EXCEPT ![c] = IF op[c] = "tts" THEN "infer" ELSE "returned"]
    /\ UNCHANGED <<cfgvars, auxvars, device, model_device, phase, latents_cache,
                   fsvars, op, ident, speaker_wav, fresh, err, sent_wav,
                   ghostvars, regvars>>

\* local_generation, lines 245-258: inference and torchaudio.save
Inference(c) ==
    /\ pc[c] = "infer"
    /\ pc' = [pc EXCEPT ![c] = "post"]
    /\ UNCHANGED <<cfgvars, auxvars, device, model_device, phase, latents_cache,
                   fsvars, op, ident, speaker_wav, fresh, result, err,
                   sent_wav, ghostvars, regvars>>

InferenceFails(c) ==
    /\ pc[c] = "infer"
    /\ pc' = [pc EXCEPT ![c] = "raised"]
    /\ err' = [err EXCEPT ![c] = "BackendFailure"]
    /\ UNCHANGED <<cfgvars, auxvars, device, model_device, phase, latents_cache,
                   fsvars, op, ident, speaker_wav, fresh, result, sent_wav,
                   ghostvars, regvars>>

\* api_generation, lines 266-271
ApiGeneration(c) ==
    /\ pc[c] = "api_call"
    /\ sent_wav' = [sent_wav EXCEPT ![c] = speaker_wav[c]]
    /\ pc' = [pc EXCEPT ![c] = "post"]
    /\ UNCHANGED <<cfgvars, auxvars, device, model_device, phase, latents_cache,
                   fsvars, op, ident, speaker_wav, fresh, result, err,
                   ghostvars, regvars>>

ApiGenerationFails(c) ==
    /\ pc[c] = "api_call"
    /\ sent_wav' = [sent_wav EXCEPT ![c] = speaker_wav[c]]
    /\ pc' = [pc EXCEPT ![c] = "raised"]
    /\ err' = [err EXCEPT ![c] = "BackendFailure"]
    /\ UNCHANGED <<cfgvars, auxvars, device, model_device, phase, latents_cache,
                   fsvars, op, ident, speaker_wav, fresh, result,
                   ghostvars, regvars>>

\* the caller has its return value (line 323) or its exception (line 326)
\* and leaves
Leave(c) ==
    /\ pc[c] \in {"returned", "raised"}
    /\ pc' = [pc EXCEPT ![c] = "idle"]
    /\ op' = [op EXCEPT ![c] = "none"]
    /\ ident' = [ident EXCEPT ![c] = <<>>]
    /\ speaker_wav' = [speaker_wav EXCEPT ![c] = NoWav]
    /\ fresh' = [fresh EXCEPT ![c] = NoPair]
    /\ result' = [result EXCEPT ![c] = NoPair]
    /\ err' = [err EXCEPT ![c] = "none"]
    /\ sent_wav' = [sent_wav EXCEPT ![c] = NoWav]
    /\ UNCHANGED <<cfgvars, auxvars, device, model_device, phase, latents_cache,
                   fsvars, ghostvars, regvars>>

-----------------------------------------------------------------------------
(* The registry's read-only operations, as the endpoint layer calls them *)

\* get_speakers / _get_speakers
ScanSpeakers ==
    /\ scan' = [called |-> TRUE, value |-> _get_speakers]
    /\ lookup' = NoLookup
    /\ UNCHANGED <<cfgvars, auxvars, device, model_device, phase, latents_cache,
                   fsvars, callervars, ghostvars>>

\* get_speaker_wav
ResolveSpeaker(id) ==
    /\ lookup' = [ident |-> id, called |-> TRUE, out |-> get_speaker_wav(id)]
    /\ scan' = NoScan
    /\ UNCHANGED <<cfgvars, auxvars, device, model_device, phase, latents_cache,
                   fsvars, callervars, ghostvars>>

\* names of top-level entries
EntryNames ==
    {<<s>> : s \in Stems} \cup {<<s, x>> : s \in Stems, x \in ExtTokens}

\* listings of a subdirectory
SubListings ==
    { <<>>,
      << <<"b1", ".wav">> >>,
      << <<"b1", ".wav">>, <<"b2", ".wav">> >>,
      << <<"b2", ".wav">>, <<"b1", ".wav">> >>,
      << <<"notes", ".txt">> >>,
      << <<"notes", ".txt">>, <<"b1", ".wav">> >> }

Entries ==
    {File(n) : n \in EntryNames}
        \cup {Dir(n, fs) : n \in EntryNames, fs \in SubListings}

\* every speaker directory of at most MaxEntries entries: a directory
\* holds no two entries of one name
Layouts ==
    {l \in UNION {[1 .. n -> Entries] : n \in 0 .. MaxEntries} :
        \A i, j \in DOMAIN l : l[i].name = l[j].name => i = j}

\* the identifiers handed to get_speaker_wav
LookupIdents ==
    {<<s>> : s \in Stems \cup {"carol"}}
        \cup {<<s, x>> : s \in Stems, x \in ExtTokens}
        \cup {<<SEP, "tmp", SEP, s, ".wav">> : s \in Stems}

InitRegistry ==
    /\ lowvram = FALSE
    /\ cuda_available = FALSE
    /\ cuda = "cuda"
    /\ model_source = "local"
    /\ device = InitialDevice(lowvram, cuda_available, cuda)
    /\ speaker_dir \in Layouts
    /\ InitObject

NextRegistry ==
    \/ ScanSpeakers
    \/ \E id \in LookupIdents : ResolveSpeaker(id)

-----------------------------------------------------------------------------
(* Specifications *)

\* a call begins
Start(c) ==
    \/ ProcessTtsToFile(c)
    \/ GetOrCreateLatents(c)

\* a call in flight takes its next step, and no relocation fails
StepReliable(c) ==
    \/ SwitchRecord(c)
    \/ SwitchMove(c)
    \/ LatentsCheck(c)
    \/ LatentsExtract(c)
    \/ LatentsExtractFails(c)
    \/ LatentsStore(c)
    \/ LatentsReturn(c)
    \/ Inference(c)
    \/ InferenceFails(c)
    \/ ApiGeneration(c)
    \/ ApiGenerationFails(c)
    \/ Leave(c)

\* a call in flight takes its next step
Step(c) ==
    \/ StepReliable(c)
    \/ SwitchMoveFails(c)

Next ==
    \/ LoadModel
    \/ LoadModelFails
    \/ \E c \in Callers : Start(c) \/ Step(c)

\* any number of threads call into the object
Spec == Init /\ [][Next]_vars

\* no call is in flight
Quiet == \A c \in Callers : pc[c] = "idle"

\* serial use: a call starts only when no other call is in flight
NextSerial ==
    \/ LoadModel
    \/ LoadModelFails
    \/ \E c \in Callers : (Quiet /\ Start(c)) \/ Step(c)

SpecSerial == Init /\ [][NextSerial]_vars

\* serial use in which every relocation of the model succeeds: the only
\* failures are those of the backend
NextSerialReliable ==
    \/ LoadModel
    \/ LoadModelFails
    \/ \E c \in Callers : (Quiet /\ Start(c)) \/ StepReliable(c)

SpecSerialReliable == Init /\ [][NextSerialReliable]_vars

\* identifiers of requests, among them the relative path of a file inside a
\* speaker's subdirectory, written without its extension
PathIdents == TtsIdents \cup { <<"bob", SEP, "b1">> }

ProcessTtsToFilePath(c) == ProcessTtsToFileWith(c, PathIdents)

StartPaths(c) ==
    \/ ProcessTtsToFilePath(c)
    \/ GetOrCreateLatents(c)

\* serial use with the identifiers of PathIdents
NextSerialPaths ==
    \/ LoadModel
    \/ LoadModelFails
    \/ \E c \in Callers : (Quiet /\ StartPaths(c)) \/ Step(c)

SpecSerialPaths == Init /\ [][NextSerialPaths]_vars

\* the registry's pure operations over every layout of the speaker directory
SpecRegistry == InitRegistry /\ [][NextRegistry]_vars

-----------------------------------------------------------------------------
(* Claims *)

\* the configuration in which the scheduler relocates the model: low-memory
\* mode, an accelerator present, a target device other than host memory
Relocating == lowvram /\ cuda_available /\ cuda = "cuda"

\* positions of a synthesize call between the end of its pre-call switch
\* and the end of its post-call switch
CyclePositions ==
    {"goc_check", "goc_extract", "goc_store", "goc_return", "infer",
     "api_call", "post", "post_to"}

\* positions of a synthesize call inside its backend dispatch
DispatchPositions ==
    {"goc_check", "goc_extract", "goc_store", "goc_return", "infer",
     "api_call"}

\* C1: in low-memory mode with an accelerator, when the backend dispatch of
\* process_tts_to_file raises, the post-call switch has still run: at the
\* moment the exception reaches the caller the model is recorded on the
\* host.
C1_PostSwitchOnFailure ==
    \A c \in Callers :
        (Relocating /\ op[c] = "tts" /\ pc[c] = "raised"
            /\ err[c] = "BackendFailure")
        => device = "cpu"

\* C2: at most one synthesize call at a time is between its pre-call switch
\* and the end of its post-call switch.
C2_MutualExclusion ==
    Cardinality({c \in Callers :
                    op[c] = "tts" /\ pc[c] \in CyclePositions}) <= 1

\* C3: in low-memory mode with an accelerator and serial use, every call's
\* backend dispatch runs with the model on the accelerator, whatever became
\* of the earlier calls, and the model is on the host when the call has
\* returned.
C3_AcceleratorDuringDispatch ==
    \A c \in Callers :
        (Relocating /\ op[c] = "tts")
        => /\ pc[c] \in DispatchPositions
                => (device = "cuda" /\ model_device = "cuda")
           /\ pc[c] = "returned"
                => (device = "cpu" /\ model_device = "cpu")

\* C4: with low-memory mode off, or no accelerator, or host memory as the
\* target device, no device transition occurs: the recorded device is the
\* one __init__ chose and the model stays where load_model put it, before,
\* during and after every synthesize call, failed or not.
C4_NoTransition ==
    (~lowvram \/ ~cuda_available \/ cuda = "cpu")
    => /\ device = (IF lowvram THEN "cpu"
                    ELSE IF cuda_available THEN cuda ELSE "cpu")
       /\ phase = "loaded"
            => model_device = (IF model_source = "api" THEN "cpu" ELSE device)

\* C4's case: low-memory mode without an accelerator, one synthesize call
\* has returned and another has failed in the backend
C4_Witness ==
    /\ lowvram /\ ~cuda_available /\ cuda = "cuda"
    /\ \E c, d \in Callers :
          /\ op[c] = "tts" /\ pc[c] = "returned"
          /\ op[d] = "tts" /\ pc[d] = "raised" /\ err[d] = "BackendFailure"

\* a caller holds the pair get_or_create_latents returned to it
Received(c) == pc[c] \in {"infer", "post", "post_to", "returned"}
                   /\ result[c] # NoPair

\* C5: under serial use the extraction completes at most once per speaker
\* name; a cached name holds the pair of the one successful extraction, no
\* extraction for that name was invoked after it, and every call for the
\* name is handed that stored pair.
C5_ExtractOnce ==
    /\ \A n \in DOMAIN extract_ok : extract_ok[n] <= 1
    /\ \A n \in DOMAIN latents_cache :
          /\ Count(extract_ok, n) = 1
          /\ latents_cache[n] = Pair(n, Count(extract_calls, n))
    /\ \A c \in Callers :
          Received(c) => /\ ident[c] \in DOMAIN latents_cache
                         /\ result[c] = latents_cache[ident[c]]

\* C5's case: no warm-up (low-memory mode), an earlier call extracted the
\* pair of the name, and this synthesize call found it cached and was
\* handed it without an extraction of its own
C5_Witness ==
    /\ lowvram
    /\ \E c \in Callers :
          /\ op[c] = "tts" /\ pc[c] = "infer"
          /\ fresh[c] = NoPair
          /\ result[c] = Pair(ident[c], 1)
          /\ Count(extract_calls, ident[c]) = 1

\* C6: when callers ask concurrently for the latents of one uncached name,
\* the extraction runs once and all of them receive the same pair.
C6_SingleFlight ==
    /\ \A n \in DOMAIN extract_ok : extract_ok[n] <= 1
    /\ \A c, d \in Callers :
          (Received(c) /\ Received(d) /\ ident[c] = ident[d])
          => result[c] = result[d]

\* C7: with a backend other than the local one the latent cache stays
\* empty, the extraction is never invoked, and the remote call is handed
\* the references get_speaker_wav resolved for the caller's identifier.
C7_ApiBypassesCache ==
    model_source # "local"
    => /\ DOMAIN latents_cache = {}
       /\ DOMAIN extract_calls = {}
       /\ \A c \in Callers :
             (op[c] = "tts" /\ (pc[c] \in {"post", "post_to", "returned"}
                                \/ (pc[c] = "raised"
                                    /\ err[c] = "BackendFailure")))
             => /\ get_speaker_wav(ident[c]).raised = "none"
                /\ sent_wav[c] = get_speaker_wav(ident[c]).value

\* C7's case: the API backend, a synthesize call for the multi-sample
\* speaker has returned and the remote call was handed its list of paths
C7_Witness ==
    /\ model_source = "api"
    /\ \E c \in Callers :
          /\ op[c] = "tts" /\ pc[c] = "returned"
          /\ sent_wav[c].islist /\ Len(sent_wav[c].paths) = 2

\* C8: for an identifier that ends with the audio extension get_speaker_wav
\* raises nothing and returns the identifier itself when it is absolute,
\* the identifier joined under the speaker folder otherwise.
C8_LiteralReference ==
    (lookup.called /\ Len(lookup.ident) > 0
        /\ lookup.ident[Len(lookup.ident)] = ".wav")
    => /\ lookup.out.raised = "none"
       /\ lookup.out.value =
              [islist |-> FALSE,
               paths  |-> << IF lookup.ident[1] = SEP THEN lookup.ident
                             ELSE speaker_folder \o <<SEP>> \o lookup.ident >>]

\* the names of d's listing that end with the audio extension, in order
IsAudio(f) == Len(f) > 0 /\ f[Len(f)] = ".wav"

AudioOf(e) == SelectSeq(e.files, IsAudio)

\* the references of entry e of the speaker directory
ReferencesOf(e) ==
    IF e.isdir
    THEN [islist |-> TRUE,
          paths  |-> [k \in DOMAIN AudioOf(e) |->
                        speaker_folder \o <<SEP>> \o e.name \o <<SEP>>
                            \o AudioOf(e)[k]]]
    ELSE [islist |-> FALSE,
          paths  |-> << speaker_folder \o <<SEP>> \o e.name >>]

\* C9: for an identifier that does not end with the audio extension
\* get_speaker_wav raises exactly when no file <identifier>.wav and no
\* subdirectory <identifier> exists or the subdirectory holds no audio
\* file; otherwise it returns the single file, or the audio files of the
\* subdirectory in listing order.
C9_NamedSpeaker ==
    (lookup.called /\ Len(lookup.ident) > 0
        /\ lookup.ident[Len(lookup.ident)] # ".wav")
    => LET id == lookup.ident
           D  == {i \in DOMAIN speaker_dir :
                     speaker_dir[i].isdir /\ speaker_dir[i].name = id}
           F  == {i \in DOMAIN speaker_dir :
                     ~speaker_dir[i].isdir
                         /\ speaker_dir[i].name = id \o <<".wav">>}
       IN  /\ lookup.out.raised \in {"none", "ValueError"}
           /\ lookup.out.raised # "none"
                <=> \/ (D = {} /\ F = {})
                    \/ \E i \in D : AudioOf(speaker_dir[i]) = <<>>
           /\ lookup.out.raised = "none"
                => \E i \in D \cup F :
                      lookup.out.value = ReferencesOf(speaker_dir[i])

\* C9's case: the name of a subdirectory listed as b2.wav, b1.wav resolves
\* to both paths in that order
C9_Witness ==
    /\ lookup.called
    /\ lookup.ident = <<"bob">>
    /\ lookup.out.raised = "none"
    /\ lookup.out.value.islist
    /\ lookup.out.value.paths =
          << <<"speakers", SEP, "bob", SEP, "b2", ".wav">>,
             <<"speakers", SEP, "bob", SEP, "b1", ".wav">> >>

\* an entry the registry is to list: a file with the audio extension or a
\* subdirectory with at least one audio file
ValidEntry(e) == IF e.isdir THEN AudioOf(e) # <<>> ELSE IsAudio(e.name)

\* C10: the list _get_speakers returns holds, in listing order, one entry
\* for each top-level audio file (named by the file name without its
\* extension) and each subdirectory with an audio file (named by the
\* directory), and nothing else.
C10_SpeakerList ==
    scan.called
    => LET valid == SelectSeq(speaker_dir, ValidEntry) IN
       /\ Len(scan.value) = Len(valid)
       /\ \A k \in DOMAIN valid :
             /\ scan.value[k].speaker_wav = ReferencesOf(valid[k])
             /\ scan.value[k].speaker_name =
                    IF valid[k].isdir THEN valid[k].name
                    ELSE SubSeq(valid[k].name, 1, Len(valid[k].name) - 1)

\* C10's case: a speaker directory of two entries, one of them a
\* subdirectory without audio, for which the scan returned one speaker
C10_Witness ==
    /\ scan.called
    /\ Len(speaker_dir) = 2
    /\ Len(scan.value) = 1
    /\ \E i \in DOMAIN speaker_dir :
          speaker_dir[i].isdir /\ AudioOf(speaker_dir[i]) = <<>>

-----------------------------------------------------------------------------
(* Start-up over every layout of the speaker directory *)

InitStartup ==
    /\ lowvram \in BOOLEAN
    /\ cuda_available = TRUE
    /\ cuda = "cuda"
    /\ model_source \in {"local", "api", "apiManual"}
    /\ device = InitialDevice(lowvram, cuda_available, cuda)
    /\ speaker_dir \in Layouts
    /\ InitObject

NextStartup ==
    \/ LoadModel
    \/ LoadModelFails

\* load_model alone, over every layout of the speaker directory
SpecStartup == InitStartup /\ [][NextStartup]_vars

\* the display name of a valid entry of the speaker directory
DisplayName(e) ==
    IF e.isdir THEN e.name ELSE SubSeq(e.name, 1, Len(e.name) - 1)

\* C11: once load_model has returned, with the local backend and low-memory
\* mode off the cache holds an entry for the name of every speaker of the
\* speaker directory; with low-memory mode on no extraction was invoked,
\* the cache is empty and the model is on the host.
C11_WarmUp ==
    phase = "loaded"
    => /\ (model_source = "local" /\ ~lowvram)
            => \A i \in DOMAIN speaker_dir :
                  ValidEntry(speaker_dir[i])
                  => DisplayName(speaker_dir[i]) \in DOMAIN latents_cache
       /\ lowvram
            => /\ DOMAIN latents_cache = {}
               /\ DOMAIN extract_calls = {}
               /\ device = "cpu"
               /\ model_device = "cpu"

\* C11's case: the local backend without low-memory mode has loaded over a
\* directory of two speakers and holds a cache entry for each
C11_Witness ==
    /\ phase = "loaded"
    /\ model_source = "local" /\ ~lowvram
    /\ Len(_get_speakers) = 2
    /\ Cardinality(DOMAIN latents_cache) = 2

-----------------------------------------------------------------------------
(* set_speaker_folder and set_out_folder *)

\* PathIsDir with the test of os.path.isdir left out
PathExists(folder) == folder \in DOMAIN disk

\* os.path.exists(folder) and os.path.isdir(folder), lines 142 and 150
PathIsDir(folder) == folder \in DOMAIN disk /\ disk[folder].isdir

\* create_directories, lines 129-139: a configured folder that does not
\* exist is made
MakeDir(d, folder) ==
    IF folder \in DOMAIN d THEN d
    ELSE (folder :> [isdir |-> TRUE, listing |-> <<>>]) @@ d

CreateDirectories(out, spk) == MakeDir(MakeDir(disk, out), spk)

SetCall(method, folder, raised) ==
    [method |-> method, folder |-> folder, raised |-> raised,
     seq |-> 1 - setcall.seq]

\* lines 141-147
SetSpeakerFolder(folder) ==
    /\ IF PathIsDir(folder)
       THEN /\ speaker_folder' = folder
            /\ speaker_dir' = disk[folder].listing
            /\ disk' = CreateDirectories(output_folder, folder)
            /\ setcall' = SetCall("set_speaker_folder", folder, FALSE)
       ELSE /\ setcall' = SetCall("set_speaker_folder", folder, TRUE)
            /\ UNCHANGED <<speaker_folder, speaker_dir, disk>>
    /\ UNCHANGED <<cfgvars, device, model_device, phase, latents_cache,
                   output_folder, callervars, ghostvars, regvars, text,
                   cleaned>>

\* lines 149-155
SetOutFolder(folder) ==
    /\ IF PathIsDir(folder)
       THEN /\ output_folder' = folder
            /\ disk' = CreateDirectories(folder, speaker_folder)
            /\ setcall' = SetCall("set_out_folder", folder, FALSE)
       ELSE /\ setcall' = SetCall("set_out_folder", folder, TRUE)
            /\ UNCHANGED <<output_folder, disk>>
    /\ UNCHANGED <<cfgvars, device, model_device, phase, latents_cache,
                   speaker_folder, speaker_dir, callervars, ghostvars,
                   regvars, text, cleaned>>

\* the paths handed to the setters: three directories, a plain file and a
\* path that does not exist
FolderArgs ==
    { <<"speakers">>, <<"voices">>, <<"output">>, <<"readme", ".txt">>,
      <<"nowhere">> }

NextFolders ==
    \E folder \in FolderArgs :
        \/ SetSpeakerFolder(folder)
        \/ SetOutFolder(folder)

\* the folder setters alone
SpecFolders == Init /\ [][NextFolders]_vars

\* C12: a folder setter raises exactly when its path does not exist or is
\* no directory, and then both configured folders keep their values; with
\* a directory the setter's own folder becomes the path and the other
\* folder keeps its value.
C12_SetFolder ==
    [][ setcall' # setcall
        => LET call == setcall'
               valid == call.folder \in DOMAIN disk
                           /\ disk[call.folder].isdir
           IN  /\ call.raised <=> ~valid
               /\ call.raised
                    => /\ speaker_folder' = speaker_folder
                       /\ output_folder' = output_folder
               /\ (~call.raised /\ call.method = "set_speaker_folder")
                    => /\ speaker_folder' = call.folder
                       /\ output_folder' = output_folder
               /\ (~call.raised /\ call.method = "set_out_folder")
                    => /\ output_folder' = call.folder
                       /\ speaker_folder' = speaker_folder ]_vars

\* C12's case: after the speaker folder was set to another directory, a
\* setter called with a plain file raised and the folders are as they were
C12_Witness ==
    /\ setcall.raised
    /\ setcall.folder = <<"readme", ".txt">>
    /\ speaker_folder = <<"voices">>
    /\ output_folder = <<"output">>

-----------------------------------------------------------------------------
(* clean_text: a text is a sequence of characters *)

MaxText == 7

STAR == "*"
CR == "CR"
LF == "LF"
DQ == "DQ"
SQ == "SQ"
\* a whitespace character other than CR and LF
SP == " "
\* "a" stands for every other character
Chars == {STAR, CR, LF, DQ, SP, "a"}

Texts == UNION {[1..n -> Chars] : n \in 0..MaxText}

\* re.sub(r'[\*\r\n]', '', text), line 234
StripBreaks(t) == SelectSeq(t, LAMBDA ch : ch \notin {STAR, CR, LF})

\* the replacement r"'\1'" with the span handed over as it stands
SingleQuotedVerbatim(inner) == <<SQ>> \o inner \o <<SQ>>

\* one match of "\s?(.*?)\s?" replaced by '\1': the greedy \s? takes one
\* whitespace character after the opening quote, the lazy group ends before
\* one whitespace character in front of the closing quote
SingleQuoted(inner) ==
    LET a == IF inner # <<>> /\ Head(inner) = SP THEN Tail(inner) ELSE inner
        b == IF a # <<>> /\ a[Len(a)] = SP
             THEN SubSeq(a, 1, Len(a) - 1) ELSE a
    IN  <<SQ>> \o b \o <<SQ>>

\* re.sub(r'"\s?(.*?)\s?"', r"'\1'", text), line 236: matches are found
\* left to right and do not overlap; the lazy group makes the first double
\* quote after the opening one the closing one; a double quote with none
\* after it matches nothing
RECURSIVE Requote(_)
Requote(t) ==
    IF t = <<>> THEN <<>>
    ELSE IF Head(t) # DQ THEN <<Head(t)>> \o Requote(Tail(t))
    ELSE LET rest == Tail(t)
             closing == {j \in 1..Len(rest) : rest[j] = DQ}
         IN  IF closing = {} THEN t
             ELSE LET j == CHOOSE k \in closing : \A m \in closing : k <= m
                  IN  SingleQuoted(SubSeq(rest, 1, j - 1))
                         \o Requote(SubSeq(rest, j + 1, Len(rest)))

\* lines 232-237
clean_text(t) == Requote(StripBreaks(t))

NoText == <<>>

\* no call of clean_text is shown
NoCleaning == text = NoText /\ cleaned = NoText

\* a call of clean_text; text and cleaned show one call at a time
CleanText(t) ==
    /\ NoCleaning
    /\ text' = t
    /\ cleaned' = clean_text(t)
    /\ UNCHANGED <<cfgvars, device, model_device, phase, latents_cache,
                   fsvars, callervars, ghostvars, regvars, setcall>>

\* the call is over
CleanTextDone ==
    /\ text # NoText
    /\ text' = NoText
    /\ cleaned' = NoText
    /\ UNCHANGED <<cfgvars, device, model_device, phase, latents_cache,
                   fsvars, callervars, ghostvars, regvars, setcall>>

InitCleanText ==
    /\ lowvram = FALSE
    /\ cuda_available = FALSE
    /\ cuda = "cuda"
    /\ model_source = "local"
    /\ device = InitialDevice(lowvram, cuda_available, cuda)
    /\ speaker_dir = <<>>
    /\ InitObject

NextCleanText ==
    \/ NoCleaning /\ \E t \in Texts : CleanText(t)
    \/ CleanTextDone

\* clean_text alone, on every text of up to MaxText characters
SpecCleanText == InitCleanText /\ [][NextCleanText]_vars

\* the text without asterisks and line breaks
Kept(t) == SelectSeq(t, LAMBDA ch : ch # STAR /\ ch # CR /\ ch # LF)

QuotesUpTo(s, i) == Cardinality({k \in 1..i : s[k] = DQ})

\* position i of s lies between a double quote and its partner: double
\* quotes pair up from the left, first with second, third with fourth
InSpan(s, i) ==
    /\ s[i] # DQ
    /\ QuotesUpTo(s, i) % 2 = 1
    /\ QuotesUpTo(s, i) < QuotesUpTo(s, Len(s))

Paired(s, i) ==
    /\ s[i] = DQ
    /\ QuotesUpTo(s, i) <= 2 * (QuotesUpTo(s, Len(s)) \div 2)

\* a whitespace character right after the opening or right before the
\* closing double quote of its span
EdgeSpace(s, i) ==
    /\ InSpan(s, i)
    /\ s[i] = SP
    /\ \/ s[i - 1] = DQ
       \/ s[i + 1] = DQ

\* what position i of s contributes to the result; trim tells whether a
\* whitespace character at an end of a span is dropped
Piece(s, i, trim) ==
    IF Paired(s, i) THEN <<SQ>>
    ELSE IF trim /\ EdgeSpace(s, i) THEN <<>>
    ELSE <<s[i]>>

RECURSIVE PiecesFrom(_, _, _)
PiecesFrom(s, i, trim) ==
    IF i > Len(s) THEN <<>>
    ELSE Piece(s, i, trim) \o PiecesFrom(s, i + 1, trim)

\* C13 as stated: the result has no asterisk, CR or LF, and every span
\* between a pair of double quotes is the same span between single quotes.
C13_SpanVerbatim ==
    /\ \A i \in DOMAIN cleaned : cleaned[i] \notin {STAR, CR, LF}
    /\ cleaned = PiecesFrom(Kept(text), 1, FALSE)

\* C13 amended: the result has no asterisk, CR or LF; every span between a
\* pair of double quotes is put between single quotes after one whitespace
\* character next to the opening quote and one next to the closing quote,
\* where present, are dropped; everything else is kept.
C13_CleanText ==
    /\ \A i \in DOMAIN cleaned : cleaned[i] \notin {STAR, CR, LF}
    /\ cleaned = PiecesFrom(Kept(text), 1, TRUE)

\* C13's cases: the example *hi*\n"there", and a span with a whitespace
\* character at each end
C13_Witness ==
    \/ /\ text = <<STAR, "a", STAR, LF, DQ, "a", DQ>>
       /\ cleaned = <<"a", SQ, "a", SQ>>
    \/ /\ text = <<DQ, SP, "a", SP, DQ>>
       /\ cleaned = <<SQ, "a", SQ>>

\* C14: every key of the latent cache is the display name of a speaker of
\* the registry scan.
C14_KeysAreDisplayNames ==
    \A key \in DOMAIN latents_cache :
        \E i \in DOMAIN speaker_dir :
            /\ ValidEntry(speaker_dir[i])
            /\ DisplayName(speaker_dir[i]) = key

\* C15: the speaker names one scan of the registry returns are pairwise
\* distinct.
C15_DistinctNames ==
    scan.called
    => \A i, j \in DOMAIN scan.value :
          scan.value[i].speaker_name = scan.value[j].speaker_name => i = j

\* C16: whenever no relocation is under way, the recorded device is the
\* device the model resides on; stated for the local backend, whose model
\* load_model places on the recorded device.
C16_DeviceIsResidence ==
    (/\ phase = "loaded"
     /\ LocalBackend
     /\ \A c \in Callers : pc[c] \notin {"pre_to", "post_to"})
    => device = model_device

\* C17: a pre-call switch that finds the model on the accelerator leaves it
\* there, a post-call switch that finds it in host memory leaves it there,
\* and neither starts a relocation.
C17_IdempotentSwitch ==
    [][ \A c \in Callers :
          /\ (/\ pc[c] = "pre" /\ pc'[c] # "pre"
              /\ device = "cuda" /\ model_device = "cuda")
                => device' = "cuda" /\ pc'[c] # "pre_to"
          /\ (/\ pc[c] = "post" /\ pc'[c] # "post"
              /\ device = "cpu" /\ model_device = "cpu")
                => device' = "cpu" /\ pc'[c] # "post_to" ]_vars

\* C18: no step removes a key of the latent cache or changes the pair
\* stored under it.
C18_CacheForever ==
    [][ \A name \in DOMAIN latents_cache :
          /\ name \in DOMAIN latents_cache'
          /\ latents_cache'[name] = latents_cache[name] ]_vars

\* C19: a synthesize call whose speaker identifier does not resolve raises
\* at once: the recorded device, the model's place and the latent cache
\* are as before, and the call has extracted nothing and sent nothing to a
\* backend.
C19_UnresolvedFailsEarly ==
    [][ \A c \in Callers :
          (/\ pc[c] = "idle"
           /\ op'[c] = "tts"
           /\ get_speaker_wav(ident'[c]).raised # "none")
          => /\ pc'[c] = "raised"
             /\ err'[c] = get_speaker_wav(ident'[c]).raised
             /\ device' = device
             /\ model_device' = model_device
             /\ latents_cache' = latents_cache
             /\ extract_calls' = extract_calls
             /\ fresh'[c] = NoPair
             /\ result'[c] = NoPair
             /\ sent_wav'[c] = NoWav ]_vars

\* C19's case: in low-memory mode with an accelerator, after an earlier call
\* filled the cache, a call for a speaker that does not exist has raised
C19_Witness ==
    /\ Relocating
    /\ DOMAIN latents_cache # {}
    /\ \E c \in Callers :
          /\ pc[c] = "raised"
          /\ err[c] = "ValueError"
          /\ ident[c] = <<"carol">>
          /\ device = "cpu"

\* C20: for every speaker a scan of the registry returns, get_speaker_wav
\* of its name returns the references the scan lists for it; stated for
\* names that do not end with the audio extension.
C20_ScanAgreesWithResolve ==
    scan.called
    => \A j \in DOMAIN scan.value :
          ~EndsWith(scan.value[j].speaker_name, WAV)
          => get_speaker_wav(scan.value[j].speaker_name)
                = Returned(scan.value[j].speaker_wav)

====
